---- MODULE Spec2Model ----
(***************************************************************************)
(* The version-gated compatibility resolver of mx_compat.py: the lazily    *)
(* built, version-ordered table _versionsMap, the build that flattens the  *)
(* MxCompatibility class hierarchy into it (_ensureCompatLoaded), and the  *)
(* two readers minVersion() and getMxCompatibility(version).               *)
(***************************************************************************)
EXTENDS Integers, Sequences, FiniteSets, TLC

(***************************************************************************)
(* Bounds.                                                                 *)
(***************************************************************************)
\* Largest number of MxCompatibility* classes the module declares.
MaxClasses == 3
\* Number of threads that may call into the module (SpecConc only).
NumCallers == 2
\* Largest number of classes declared when calls interleave (SpecConc only).
MaxClassesConc == 2

(***************************************************************************)
(* mx.VersionSpec: a dotted version as the tuple of its integer parts.     *)
(* Comparison is component-wise, a missing trailing part counting as zero. *)
(***************************************************************************)
NoVersion == <<>>

Part(v, i) == IF i <= Len(v) THEN v[i] ELSE 0

MaxLen(a, b) == IF Len(a) >= Len(b) THEN Len(a) ELSE Len(b)

VersionLess(a, b) ==
    \E i \in 1..MaxLen(a, b) :
        /\ Part(a, i) < Part(b, i)
        /\ \A j \in 1..(i - 1) : Part(a, j) = Part(b, j)

VersionEq(a, b) == \A i \in 1..MaxLen(a, b) : Part(a, i) = Part(b, i)

VersionLeq(a, b) == VersionLess(a, b) \/ VersionEq(a, b)

\* Versions a class may declare in version(): "1", "2", ...
ClassVersions == {<<a>> : a \in 1..MaxClasses}

\* Versions a caller may ask for: "a.0" (equal to the class version "a") and
\* "a.1" (between "a" and "a+1"), for a = 0, 1, ...
QueryVersions == {<<a, b>> : a \in 0..MaxClasses, b \in 0..1}

(***************************************************************************)
(* The declared classes.  Class 0 is object; classes 1..n are the          *)
(* MxCompatibility* classes in declaration order, so a class derives from  *)
(* object or from a class declared before it.  Class names are taken to    *)
(* sort in declaration order.                                              *)
(***************************************************************************)
Object == 0

Declarations ==
    UNION {
        { [n |-> n, base |-> b, ver |-> v] :
            b \in {f \in [1..n -> 0..n] : \A c \in 1..n : f[c] < c},
            v \in [1..n -> ClassVersions] }
        : n \in 0..MaxClasses }

\* The flags a class body defines.  A class deriving from object (a root
\* profile) defines every flag, as MxCompatibility500 does.
Flags == {"supportsLicenses", "licenseAttribute"}

OverrideSets(d) ==
    {o \in [1..d.n -> SUBSET Flags] : \A c \in 1..d.n : d.base[c] = Object => o[c] = Flags}

\* Attribute lookup through the inheritance chain: the class's own
\* definition, else its base's.  The value a class defines is named by the
\* class: <<c>> is "what class c's method returns".
RECURSIVE FlagWalk(_, _, _, _)
FlagWalk(d, o, c, f) ==
    IF c = Object THEN <<"AttributeError">>
    ELSE IF f \in o[c] THEN <<c>>
    ELSE FlagWalk(d, o, d.base[c], f)

FlagRootOnly(d, o, c, f) ==
    IF c = Object THEN <<"AttributeError">>
    ELSE IF f \in o[c] THEN <<c>>
    ELSE <<CHOOSE r \in 1..d.n : d.base[r] = Object /\ \A s \in 1..d.n : d.base[s] = Object => r <= s>>

FlagValue(d, o, c, f) == FlagWalk(d, o, c, f)

(***************************************************************************)
(* inspect.getclasstree(classes): the nested list of (class, bases)        *)
(* entries, each followed by the list of its subclasses when it has any.   *)
(***************************************************************************)
ClassEntry(c) == [kind |-> "class", cls |-> c, sub |-> <<>>]

ListEntry(s) == [kind |-> "list", cls |-> -1, sub |-> s]

RECURSIVE SortedSeq(_)
SortedSeq(S) ==
    IF S = {} THEN <<>>
    ELSE LET m == CHOOSE x \in S : \A y \in S : x <= y
         IN <<m>> \o SortedSeq(S \ {m})

Children(d, p) == {c \in 1..d.n : d.base[c] = p}

RECURSIVE WalkTree(_, _)
WalkTree(d, cs) ==
    IF cs = <<>> THEN <<>>
    ELSE LET c == Head(cs)
             own == IF Children(d, c) # {}
                    THEN <<ClassEntry(c), ListEntry(WalkTree(d, SortedSeq(Children(d, c))))>>
                    ELSE <<ClassEntry(c)>>
         IN own \o WalkTree(d, Tail(cs))

\* Every class has a base, so the only root of the tree is object, and it
\* is a root only when some class derives from it.
GetClassTree(d) ==
    WalkTree(d, IF Children(d, Object) # {} THEN <<Object>> ELSE <<>>)

(***************************************************************************)
(* flattenClassTree(tree): the classes the generator yields, in order, and *)
(* the exception that ends it ("none" for a normal end).                   *)
(***************************************************************************)
NoError == [type |-> "none", site |-> "none"]

Raised(type, site) == [type |-> type, site |-> site]

RECURSIVE FlattenFrom(_)
FlattenFrom(tree) ==
    IF Len(tree) = 0
    THEN [yields |-> <<>>, err |-> Raised("IndexError", "tree[0][0]")]
    ELSE IF tree[1].kind # "class"
    THEN [yields |-> <<>>, err |-> Raised("AssertionError", "isinstance(root, type)")]
    ELSE IF Len(tree) > 1
    THEN IF Len(tree) # 2
         THEN [yields |-> <<tree[1].cls>>, err |-> Raised("AssertionError", "len(tree) == 2")]
         ELSE IF tree[2].kind # "list"
         THEN [yields |-> <<tree[1].cls>>,
               err |-> Raised("AssertionError", "isinstance(rest, list)")]
         ELSE LET r == FlattenFrom(tree[2].sub)
              IN [yields |-> <<tree[1].cls>> \o r.yields, err |-> r.err]
    ELSE [yields |-> <<tree[1].cls>>, err |-> NoError]

RECURSIVE FlattenFirstPath(_)
FlattenFirstPath(tree) ==
    IF Len(tree) = 0
    THEN [yields |-> <<>>, err |-> Raised("IndexError", "tree[0][0]")]
    ELSE IF Len(tree) > 1 /\ tree[2].kind = "list"
    THEN LET r == FlattenFirstPath(tree[2].sub)
         IN [yields |-> <<tree[1].cls>> \o r.yields, err |-> r.err]
    ELSE [yields |-> <<tree[1].cls>>, err |-> NoError]

FlattenLenient(tree) ==
    IF Len(tree) = 0 THEN [yields |-> <<>>, err |-> NoError] ELSE FlattenFrom(tree)

flattenClassTree(tree) == FlattenFrom(tree)

\* The generator the build loop iterates over: what it will yield and how
\* it will end.
ClassStream(d) == flattenClassTree(GetClassTree(d))

(***************************************************************************)
(* _versionsMap: an OrderedDict, as the sequence of its items in insertion *)
(* order.  A value is an instance: its class and which instantiation of    *)
(* that class it is.                                                       *)
(***************************************************************************)
NoInstance == [cls |-> -1, gen |-> 0]

Keys(m) == [j \in 1..Len(m) |-> m[j].key]

HasKey(m, k) == \E j \in 1..Len(m) : VersionEq(m[j].key, k)

\* _versionsMap[k] = inst: an equal key keeps its place and takes the new
\* value; a new key goes last.
SetItem(m, k, inst) ==
    IF HasKey(m, k)
    THEN [j \in 1..Len(m) |-> IF VersionEq(m[j].key, k) THEN [key |-> m[j].key, val |-> inst] ELSE m[j]]
    ELSE Append(m, [key |-> k, val |-> inst])

GetItem(m, k) ==
    IF HasKey(m, k)
    THEN m[CHOOSE j \in 1..Len(m) : VersionEq(m[j].key, k)].val
    ELSE NoInstance

\* `if not _versionsMap`
EnsureAlways(m) == TRUE

EnsureNeeded(m) == Len(m) = 0

\* `previousVersion is None or previousVersion < clazz.version()`
MonotonicUnchecked(prev, v) == TRUE

MonotonicOrEqual(prev, v) == prev = NoVersion \/ VersionLeq(prev, v)

MonotonicOk(prev, v) == prev = NoVersion \/ VersionLess(prev, v)

\* `list(_versionsMap)[0]`
LastKey(m) == m[Len(m)].key

FirstKey(m) == m[1].key

\* `version < minVersion()`
BelowMinNever(v, m) == FALSE

BelowMin(v, m) == VersionLess(v, m)

(***************************************************************************)
(* bisect.bisect_right(a, x) and the index the lookup uses.  lo and hi are *)
(* 0-based as in Python; a[mid] is the TLA+ element mid + 1.               *)
(***************************************************************************)
RECURSIVE BisectRight(_, _, _, _)
BisectRight(a, x, lo, hi) ==
    IF lo < hi
    THEN LET mid == (lo + hi) \div 2
         IN IF VersionLess(x, a[mid + 1])
            THEN BisectRight(a, x, lo, mid)
            ELSE BisectRight(a, x, mid + 1, hi)
    ELSE lo

RECURSIVE BisectLeft(_, _, _, _)
BisectLeft(a, x, lo, hi) ==
    IF lo < hi
    THEN LET mid == (lo + hi) \div 2
         IN IF VersionLess(a[mid + 1], x)
            THEN BisectLeft(a, x, mid + 1, hi)
            ELSE BisectLeft(a, x, lo, mid)
    ELSE lo

LookupIndexLeft(keys, v) == BisectLeft(keys, v, 0, Len(keys)) - 1

LookupIndex(keys, v) == BisectRight(keys, v, 0, Len(keys)) - 1

\* keys[i] with Python's indexing: a negative index counts from the end.
PyIndexOk(s, i) == -Len(s) <= i /\ i < Len(s)

PyIndex(s, i) == IF i >= 0 THEN s[i + 1] ELSE s[Len(s) + i + 1]

(***************************************************************************)
(* State.                                                                  *)
(***************************************************************************)
VARIABLES
    decl,         \* the classes the module declares (fixed after import)
    versionsMap,  \* _versionsMap
    built,        \* per class, how many times it has been instantiated
    th            \* per caller: where it is in its call, its locals, its outcome

vars == <<decl, versionsMap, built, th>>

Callers == 1..NumCallers

MainThread == 1

NoOutcome == [kind |-> "none", val |-> NoVersion, inst |-> NoInstance, err |-> NoError]

Outcome(kind, val, inst, err) == [kind |-> kind, val |-> val, inst |-> inst, err |-> err]

\* No generator: the call is not inside the build loop.
NoStream == [yields |-> <<>>, err |-> NoError]

Idle ==
    [pc |-> "idle", op |-> "none", arg |-> NoVersion, ran |-> FALSE, gen |-> NoStream,
     i |-> 0, prev |-> NoVersion, made |-> NoInstance, seen |-> 0, keys |-> <<>>,
     out |-> NoOutcome]

\* A call that has ended: its locals are gone, its outcome stays.
Done(s, out) ==
    [s EXCEPT !.pc = "done", !.gen = NoStream, !.i = 0, !.prev = NoVersion,
              !.made = NoInstance, !.seen = 0, !.keys = <<>>, !.out = out]

Init ==
    /\ decl \in Declarations
    /\ versionsMap = <<>>
    /\ built = [c \in 1..MaxClasses |-> 0]
    /\ th = [t \in Callers |-> Idle]

\* The ladder as the repository declares it: one path, strictly ascending.
Linear(d) == \A p \in 0..d.n : Cardinality(Children(d, p)) <= 1

Ascending(d) == \A c \in 1..d.n : d.base[c] # Object => VersionLess(d.ver[d.base[c]], d.ver[c])

WellFormed(d) == d.n >= 1 /\ Linear(d) /\ Ascending(d)

(***************************************************************************)
(* Calls.  A call starts with `if not _versionsMap` (line 438): every      *)
(* entry point reaches it before it touches anything else.                 *)
(***************************************************************************)
Enter(t, op, arg) ==
    /\ th[t].pc \in {"idle", "done"}
    /\ LET s == [Idle EXCEPT !.op = op, !.arg = arg]
       IN th' = [th EXCEPT ![t] =
              IF EnsureNeeded(versionsMap)
              THEN [s EXCEPT !.pc = "build", !.ran = TRUE, !.gen = ClassStream(decl)]
              ELSE IF op = "_ensureCompatLoaded"
              THEN Done(s, Outcome("ok", NoVersion, NoInstance, NoError))
              ELSE [s EXCEPT !.pc = "min"]]
    /\ UNCHANGED <<decl, versionsMap, built>>

CallEnsureCompatLoaded(t) == Enter(t, "_ensureCompatLoaded", NoVersion)

CallMinVersion(t) == Enter(t, "minVersion", NoVersion)

CallGetMxCompatibility(t) == \E v \in QueryVersions : Enter(t, "getMxCompatibility", v)

(***************************************************************************)
(* The build loop of _ensureCompatLoaded.  An iteration that inserts takes *)
(* two steps: line 464 first calls clazz() and only then stores the result *)
(* into _versionsMap, and other callers run between the two.               *)
(***************************************************************************)
Building(t) == th[t].pc = "build"

NextClass(t) == th[t].gen.yields[th[t].i + 1]

HasNext(t) == th[t].i < Len(th[t].gen.yields)

\* `if clazz == object: continue`
BuildSkipObject(t) ==
    /\ Building(t) /\ HasNext(t)
    /\ NextClass(t) = Object
    /\ th' = [th EXCEPT ![t].i = @ + 1]
    /\ UNCHANGED <<decl, versionsMap, built>>

\* The instance is made and not yet stored.
Storing(t) == th[t].pc = "store"

\* A build is in progress in this caller.
InBuild(t) == Building(t) \/ Storing(t)

\* The assert holds: previousVersion = clazz.version(), then the right-hand
\* side of line 464, clazz(), is evaluated.
BuildInstantiate(t) ==
    /\ Building(t) /\ HasNext(t)
    /\ LET c == NextClass(t) IN
        /\ c # Object
        /\ MonotonicOk(th[t].prev, decl.ver[c])
        /\ built' = [built EXCEPT ![c] = @ + 1]
        /\ th' = [th EXCEPT ![t].pc = "store", ![t].prev = decl.ver[c],
                            ![t].made = [cls |-> c, gen |-> built[c] + 1]]
    /\ UNCHANGED <<decl, versionsMap>>

\* The store of line 464: _versionsMap[previousVersion] = <the instance>
BuildInsert(t) ==
    /\ Storing(t)
    /\ versionsMap' = SetItem(versionsMap, th[t].prev, th[t].made)
    /\ th' = [th EXCEPT ![t].pc = "build", ![t].i = @ + 1, ![t].made = NoInstance]
    /\ UNCHANGED <<decl, built>>

\* The assert of line 462 fails.
BuildAssertFails(t) ==
    /\ Building(t) /\ HasNext(t)
    /\ LET c == NextClass(t) IN
        /\ c # Object
        /\ ~MonotonicOk(th[t].prev, decl.ver[c])
    /\ th' = [th EXCEPT ![t] =
           Done(@, Outcome("raise", NoVersion, NoInstance,
                           Raised("AssertionError", "previousVersion < clazz.version()")))]
    /\ UNCHANGED <<decl, versionsMap, built>>

\* The generator raises instead of yielding.
BuildFlattenRaises(t) ==
    /\ Building(t) /\ ~HasNext(t)
    /\ th[t].gen.err # NoError
    /\ th' = [th EXCEPT ![t] = Done(@, Outcome("raise", NoVersion, NoInstance, @.gen.err))]
    /\ UNCHANGED <<decl, versionsMap, built>>

\* The generator is exhausted: _ensureCompatLoaded returns.
BuildFinished(t) ==
    /\ Building(t) /\ ~HasNext(t)
    /\ th[t].gen.err = NoError
    /\ th' = [th EXCEPT ![t] =
           IF @.op = "_ensureCompatLoaded"
           THEN Done(@, Outcome("ok", NoVersion, NoInstance, NoError))
           ELSE [@ EXCEPT !.pc = "min", !.gen = NoStream, !.i = 0, !.prev = NoVersion]]
    /\ UNCHANGED <<decl, versionsMap, built>>

(***************************************************************************)
(* list(_versionsMap) and list(_versionsMap.keys()), lines 426 and 432.    *)
(* The iterator of an OrderedDict notes the dict's modification state when *)
(* it is created and hashes every key it walks; VersionSpec.__hash__ is    *)
(* Python code, so other callers run during the walk.  A key stored in the *)
(* meantime makes the walk raise RuntimeError; a value stored under a key  *)
(* already present does not.  An empty table is listed without any hash    *)
(* call, in one step.                                                      *)
(***************************************************************************)
\* The modification state of the table: it changes when a key is added, and
\* keys are never removed.
OdState(m) == Len(m)

MutatedDuringIteration(site) == Raised("RuntimeError", site)

\* minVersion line 426: list(_versionsMap) starts to walk the table.
MinVersionIterate(t) ==
    /\ th[t].pc = "min"
    /\ th' = [th EXCEPT ![t] =
           IF Len(versionsMap) = 0
           THEN Done(@, Outcome("raise", NoVersion, NoInstance, Raised("IndexError", "list(_versionsMap)[0]")))
           ELSE [@ EXCEPT !.pc = "minwalk", !.seen = OdState(versionsMap)]]
    /\ UNCHANGED <<decl, versionsMap, built>>

\* The walk of line 426 ends; minVersion returns, and getMxCompatibility
\* compares (line 430).
MinVersionRead(t) ==
    /\ th[t].pc = "minwalk"
    /\ th' = [th EXCEPT ![t] =
           IF OdState(versionsMap) # @.seen
           THEN Done(@, Outcome("raise", NoVersion, NoInstance,
                                MutatedDuringIteration("list(_versionsMap)[0]")))
           ELSE IF @.op = "minVersion"
           THEN Done(@, Outcome("version", FirstKey(versionsMap), NoInstance, NoError))
           ELSE IF BelowMin(@.arg, FirstKey(versionsMap))
           THEN Done(@, Outcome("None", NoVersion, NoInstance, NoError))
           ELSE [@ EXCEPT !.pc = "keys", !.seen = 0]]
    /\ UNCHANGED <<decl, versionsMap, built>>

\* line 432: list(_versionsMap.keys()) starts to walk the table.
KeysIterate(t) ==
    /\ th[t].pc = "keys"
    /\ th' = [th EXCEPT ![t] =
           IF Len(versionsMap) = 0
           THEN [@ EXCEPT !.pc = "lookup", !.keys = <<>>]
           ELSE [@ EXCEPT !.pc = "keyswalk", !.seen = OdState(versionsMap)]]
    /\ UNCHANGED <<decl, versionsMap, built>>

\* The walk of line 432 ends: keys = list(_versionsMap.keys())
SnapshotKeys(t) ==
    /\ th[t].pc = "keyswalk"
    /\ th' = [th EXCEPT ![t] =
           IF OdState(versionsMap) # @.seen
           THEN Done(@, Outcome("raise", NoVersion, NoInstance,
                                MutatedDuringIteration("list(_versionsMap.keys())")))
           ELSE [@ EXCEPT !.pc = "lookup", !.seen = 0, !.keys = Keys(versionsMap)]]
    /\ UNCHANGED <<decl, versionsMap, built>>

\* return _versionsMap[keys[bisect.bisect_right(keys, version)-1]]
Lookup(t) ==
    /\ th[t].pc = "lookup"
    /\ LET idx == LookupIndex(th[t].keys, th[t].arg)
       IN th' = [th EXCEPT ![t] =
              IF ~PyIndexOk(@.keys, idx)
              THEN Done(@, Outcome("raise", NoVersion, NoInstance, Raised("IndexError", "keys[...]")))
              ELSE LET k == PyIndex(@.keys, idx)
                   IN Done(@, Outcome("profile", k, GetItem(versionsMap, k), NoError))]
    /\ UNCHANGED <<decl, versionsMap, built>>

ThreadNext(t) ==
    \/ CallEnsureCompatLoaded(t)
    \/ CallMinVersion(t)
    \/ CallGetMxCompatibility(t)
    \/ BuildSkipObject(t)
    \/ BuildInstantiate(t)
    \/ BuildInsert(t)
    \/ BuildAssertFails(t)
    \/ BuildFlattenRaises(t)
    \/ BuildFinished(t)
    \/ MinVersionIterate(t)
    \/ MinVersionRead(t)
    \/ KeysIterate(t)
    \/ SnapshotKeys(t)
    \/ Lookup(t)

\* One caller, one call at a time.
Next == ThreadNext(MainThread)

Spec == Init /\ [][Next]_vars

\* Several callers whose calls interleave between accesses to _versionsMap.
NextConc == \E t \in Callers : ThreadNext(t)

InitConc == Init /\ decl.n <= MaxClassesConc

SpecConc == InitConc /\ [][NextConc]_vars

(***************************************************************************)
(* Properties.                                                             *)
(***************************************************************************)
\* The first profile the build reaches: the first class deriving from object.
RootClass(d) ==
    CHOOSE r \in 1..d.n : d.base[r] = Object /\ \A s \in 1..d.n : d.base[s] = Object => r <= s

\* The class declared at the greatest version that is <= v.
GreatestLeq(d, v) ==
    CHOOSE c \in 1..d.n :
        /\ VersionLeq(d.ver[c], v)
        /\ \A e \in 1..d.n : VersionLeq(d.ver[e], v) => VersionLeq(d.ver[e], d.ver[c])

Returned(t, op) == th[t].pc = "done" /\ th[t].op = op

\* C1: on a chain v1 < ... < vN, getMxCompatibility(v) with v >= v1 returns
\* the profile the table stores at the greatest chain version <= v (so
\* resolve(vi) is the profile declared at vi, and every v in [vi, vi+1)
\* resolves to that same profile).
C1_ResolveGreatestLeq ==
    \A t \in Callers :
        ( /\ WellFormed(decl)
          /\ Returned(t, "getMxCompatibility")
          /\ VersionLeq(decl.ver[RootClass(decl)], th[t].arg) )
        => LET c == GreatestLeq(decl, th[t].arg)
           IN /\ th[t].out.kind = "profile"
              /\ th[t].out.inst.cls = c
              /\ th[t].out.val = decl.ver[c]
              /\ th[t].out.inst = GetItem(versionsMap, decl.ver[c])

\* A query strictly between two chain versions was resolved on a full
\* three-entry table.
C1_Witness ==
    /\ WellFormed(decl) /\ decl.n = 3
    /\ Returned(MainThread, "getMxCompatibility")
    /\ th[MainThread].out.kind = "profile"
    /\ th[MainThread].out.inst.cls = 2
    /\ VersionLess(decl.ver[2], th[MainThread].arg)
    /\ VersionLess(th[MainThread].arg, decl.ver[3])

\* C2: a query strictly below the root version gets no profile:
\* getMxCompatibility returns None (the UnsupportedVersion outcome), never an
\* entry of the table.
C2_BelowRootUnsupported ==
    \A t \in Callers :
        ( /\ decl.n >= 1
          /\ Returned(t, "getMxCompatibility")
          /\ VersionLess(th[t].arg, decl.ver[RootClass(decl)]) )
        => /\ th[t].out.kind # "profile"
           /\ th[t].out.inst = NoInstance
           /\ (WellFormed(decl) \/ ~th[t].ran) => th[t].out.kind = "None"

\* A query below the root was answered on a table of two or more entries,
\* where index -1 would have named a different entry.
C2_Witness ==
    /\ WellFormed(decl)
    /\ Len(versionsMap) >= 2
    /\ Returned(MainThread, "getMxCompatibility")
    /\ VersionLess(th[MainThread].arg, decl.ver[RootClass(decl)])
    /\ th[MainThread].out.kind = "None"

\* C3: once the table holds entries and no build is running, every step of
\* every later call (minVersion, getMxCompatibility, _ensureCompatLoaded)
\* leaves the table as it is, instantiates no class and starts no build.
NoBuildRunning == \A t \in Callers : ~InBuild(t)

TableCached == Len(versionsMap) > 0 /\ NoBuildRunning

C3_CachedTableUnchanged ==
    [][TableCached => (versionsMap' = versionsMap /\ built' = built /\ NoBuildRunning')]_vars

\* A call that found the table already built has returned from it.
C3_Witness ==
    /\ WellFormed(decl) /\ decl.n >= 2
    /\ Len(versionsMap) = decl.n
    /\ th[MainThread].pc = "done"
    /\ ~th[MainThread].ran
    /\ th[MainThread].out.kind \in {"version", "profile", "ok"}

\* The class that sets flag f at the greatest chain version <= v, under the
\* class bodies o.
LatestSetter(d, o, v, f) ==
    CHOOSE c \in 1..d.n :
        /\ f \in o[c] /\ VersionLeq(d.ver[c], v)
        /\ \A e \in 1..d.n :
              (f \in o[e] /\ VersionLeq(d.ver[e], v)) => VersionLeq(d.ver[e], d.ver[c])

\* C4: whatever flags the class bodies override, each flag of the profile
\* returned for v >= v1 has the value set at the greatest chain version <= v
\* that overrides it (the root's default when none does), and a class that
\* does not override a flag has its predecessor's value.
C4_FlagInheritance ==
    \A t \in Callers :
        ( /\ WellFormed(decl)
          /\ Returned(t, "getMxCompatibility")
          /\ th[t].out.kind = "profile" )
        => \A o \in OverrideSets(decl) : \A f \in Flags :
              /\ FlagValue(decl, o, th[t].out.inst.cls, f) = <<LatestSetter(decl, o, th[t].arg, f)>>
              /\ \A c \in 1..decl.n :
                    (decl.base[c] # Object /\ f \notin o[c])
                    => FlagValue(decl, o, c, f) = FlagValue(decl, o, decl.base[c], f)

\* The profile of the third class of a three-entry chain was returned: its
\* flags come from two levels of inheritance.
C4_Witness ==
    /\ WellFormed(decl) /\ decl.n = 3
    /\ Returned(MainThread, "getMxCompatibility")
    /\ th[MainThread].out.kind = "profile"
    /\ th[MainThread].out.inst.cls = 3

\* C5: on a single-path hierarchy in which some class's version is not
\* strictly greater than its predecessor's, a call that runs the build never
\* gets past it: the build ends with the AssertionError of the monotonicity
\* check (the NonMonotonicVersion outcome).
NonMonotonicVersion == Raised("AssertionError", "previousVersion < clazz.version()")

C5_NonMonotonicFails ==
    \A t \in Callers :
        (decl.n >= 1 /\ Linear(decl) /\ ~Ascending(decl) /\ th[t].ran)
        => \/ InBuild(t)
           \/ /\ th[t].pc = "done"
              /\ th[t].out.kind = "raise"
              /\ th[t].out.err = NonMonotonicVersion

\* The build of a chain [v, v] (equal versions) has failed.
C5_Witness ==
    /\ decl.n = 2 /\ Linear(decl)
    /\ VersionEq(decl.ver[1], decl.ver[2])
    /\ th[MainThread].pc = "done" /\ th[MainThread].ran
    /\ th[MainThread].out.err = NonMonotonicVersion

\* The profile classes in the order the build reaches them.
NotObject(c) == c # Object

ChainOrder(d) == SelectSeq(ClassStream(d).yields, NotObject)

\* Among the profiles the flattening yields before it stops, one has a
\* version that is not strictly greater than the version of the one yielded
\* before it.
DefectReachedFirst(d) ==
    \E j \in 1..(Len(ChainOrder(d)) - 1) :
        ~VersionLess(d.ver[ChainOrder(d)[j]], d.ver[ChainOrder(d)[j + 1]])

AmbiguousChain ==
    {Raised("AssertionError", "len(tree) == 2"), Raised("AssertionError", "isinstance(rest, list)")}

\* C6 as stated: on every hierarchy in which some class (or object) has more
\* than one direct subclass, a call that runs the build never gets past it
\* and the build ends with one of flattenClassTree's two assertions (the
\* AmbiguousChain outcome).
C6_BranchingFailsAmbiguous ==
    \A t \in Callers :
        (~Linear(decl) /\ th[t].ran)
        => \/ InBuild(t)
           \/ /\ th[t].pc = "done"
              /\ th[t].out.kind = "raise"
              /\ th[t].out.err \in AmbiguousChain

\* C6 amended: on every hierarchy in which some class (or object) has more
\* than one direct subclass, a call that runs the build never gets past it:
\* the build ends with the AmbiguousChain outcome, except when the classes
\* yielded before the branching stops the flattening already contain a
\* version that is not strictly greater than its predecessor's; then it ends
\* with the monotonicity assertion of line 462 (NonMonotonicVersion).
C6_BranchingFails ==
    \A t \in Callers :
        (~Linear(decl) /\ th[t].ran)
        => \/ InBuild(t)
           \/ /\ th[t].pc = "done"
              /\ th[t].out.kind = "raise"
              /\ IF DefectReachedFirst(decl)
                 THEN th[t].out.err = NonMonotonicVersion
                 ELSE th[t].out.err \in AmbiguousChain

\* The build has failed on two sibling classes of which one has a subclass.
C6_Witness ==
    /\ decl.n = 3 /\ ~Linear(decl) /\ Ascending(decl)
    /\ \E c \in 1..3 : decl.base[c] # Object
    /\ th[MainThread].pc = "done" /\ th[MainThread].ran
    /\ th[MainThread].out.err = Raised("AssertionError", "len(tree) == 2")

\* C7: whenever minVersion() returns, its result is the root profile's
\* version, no key of the table is smaller, the table has been built, and on
\* a well-formed chain it is the smallest declared version and the whole
\* chain is in the table.
C7_MinVersionIsSmallest ==
    \A t \in Callers :
        (Returned(t, "minVersion") /\ th[t].out.kind # "raise")
        => /\ th[t].out.kind = "version"
           /\ th[t].out.val = decl.ver[RootClass(decl)]
           /\ Len(versionsMap) >= 1
           /\ built[RootClass(decl)] >= 1
           /\ \A j \in 1..Len(versionsMap) : VersionLeq(th[t].out.val, versionsMap[j].key)
           /\ WellFormed(decl) =>
                 /\ \A c \in 1..decl.n : VersionLeq(th[t].out.val, decl.ver[c])
                 /\ Len(versionsMap) = decl.n

\* The first minVersion() call ran the build of a three-entry chain and
\* returned.
C7_Witness ==
    /\ WellFormed(decl) /\ decl.n = 3
    /\ Returned(MainThread, "minVersion")
    /\ th[MainThread].ran
    /\ th[MainThread].out.kind = "version"

\* C8: under concurrent first access each class is instantiated at most
\* once.
C8_BuiltAtMostOnce == \A c \in 1..MaxClasses : built[c] <= 1

\* C9: with no class declared the build ends with the IndexError of
\* flattenClassTree (the EmptyChain outcome); no call gets past
\* _ensureCompatLoaded with the table empty, so minVersion never indexes an
\* empty table.
EmptyChain == Raised("IndexError", "tree[0][0]")

C9_EmptyChainFails ==
    \A t \in Callers :
        /\ (decl.n = 0 /\ th[t].pc # "idle")
           => \/ InBuild(t)
              \/ (th[t].pc = "done" /\ th[t].out.kind = "raise" /\ th[t].out.err = EmptyChain)
        /\ (th[t].pc \in {"min", "minwalk", "keys", "keyswalk", "lookup"}) => Len(versionsMap) > 0
        /\ (th[t].pc = "done" /\ th[t].out.kind # "raise") => Len(versionsMap) > 0
        /\ th[t].out.err.type = "IndexError" => th[t].out.err = EmptyChain

\* minVersion() was called on a module that declares no profile and failed.
C9_Witness ==
    /\ decl.n = 0
    /\ Returned(MainThread, "minVersion")
    /\ th[MainThread].out.err = EmptyChain

\* C10: in every state, mid-build included, the keys of the table in
\* insertion order are strictly ascending and are the versions of a prefix
\* of the chain, each entry holding an instance of its class.
C10_KeysAscendingInChainOrder ==
    /\ \A j, k \in 1..Len(versionsMap) :
          j < k => VersionLess(versionsMap[j].key, versionsMap[k].key)
    /\ Len(versionsMap) <= Len(ChainOrder(decl))
    /\ \A j \in 1..Len(versionsMap) :
          /\ versionsMap[j].val.cls = ChainOrder(decl)[j]
          /\ versionsMap[j].key = decl.ver[ChainOrder(decl)[j]]

\* A build of a three-class chain is under way with two entries inserted.
C10_Witness ==
    /\ decl.n = 3
    /\ th[MainThread].pc = "build"
    /\ Len(versionsMap) = 2

\* A hierarchy with a chain defect: classes are declared, but they are not
\* one strictly ascending path.
Defective(d) == d.n >= 1 /\ ~WellFormed(d)

\* C11: on a hierarchy whose build fails on a chain defect, no partial
\* table stays cached: every minVersion() or getMxCompatibility(v) call
\* that ends, the ones after the failed build included, ends in failure,
\* and none returns a version or a profile read from the entries inserted
\* before the defect.
C11_FailedBuildStaysFailed ==
    \A t \in Callers :
        ( /\ Defective(decl)
          /\ th[t].pc = "done"
          /\ th[t].op \in {"minVersion", "getMxCompatibility"} )
        => /\ th[t].out.kind = "raise"
           /\ th[t].out.inst = NoInstance

\* What a call returns against the completely built table of a well-formed
\* chain: minVersion() the root's version, getMxCompatibility(v) None below
\* the root and otherwise the profile of the greatest chain version <= v.
CompleteKind(d, op, v) ==
    IF op = "minVersion" THEN "version"
    ELSE IF VersionLess(v, d.ver[RootClass(d)]) THEN "None"
    ELSE "profile"

CompleteClass(d, op, v) ==
    IF CompleteKind(d, op, v) = "profile" THEN GreatestLeq(d, v) ELSE NoInstance.cls

\* C12: while one caller is inside the first build, no other caller reads a
\* partially populated table: every minVersion() or getMxCompatibility(v)
\* call that returns, returns what it returns against the complete table.
C12_NeverReadsPartialTable ==
    \A t \in Callers :
        ( /\ WellFormed(decl)
          /\ th[t].pc = "done"
          /\ th[t].op \in {"minVersion", "getMxCompatibility"} )
        => /\ th[t].out.kind = CompleteKind(decl, th[t].op, th[t].arg)
           /\ th[t].out.inst.cls = CompleteClass(decl, th[t].op, th[t].arg)
           /\ th[t].op = "minVersion" => th[t].out.val = decl.ver[RootClass(decl)]

====
